---- MODULE Spec2Model ----
(***************************************************************************)
(* Rider earnings and cashout ledger of the parcel server (src/index.js,   *)
(* second copy of index.js, lines 316-1376): POST /riders/cashout,         *)
(* GET /riders/balance, PATCH /admin/cashout/:id, the parcel status update *)
(* they depend on, and POST /payments.  Every handler is cut at its        *)
(* awaited operations: one action per database or Stripe round trip,       *)
(* together with the synchronous code that precedes it.                    *)
(*                                                                         *)
(* Money: deliveryCharge and cashout amounts are whole currency units;     *)
(* earnings are kept in hundredths of a unit (Scale), so that 0.8 * charge *)
(* and 0.3 * charge are exact.                                             *)
(***************************************************************************)
EXTENDS Integers, Sequences, FiniteSets, TLC

VARIABLES parcels, cashouts, payments, now, sub, adm, bal, pay

vars == <<parcels, cashouts, payments, now, sub, adm, bal, pay>>

(* ------------------------------ bounds --------------------------------- *)

\* cashout documents ever inserted
MaxCashouts == 2
\* last value of the clock
MaxTime == 2
\* requests received whose response has not been collected yet
MaxInFlight == 2

(* ------------------------- program constants --------------------------- *)

\* hundredths of a currency unit per unit
Scale == 100
\* 0.8 and 0.3 as percentages
SameDistrictPercentage == 80
OtherDistrictPercentage == 30
\* if (amount < 100)
MinCashout == 100
\* processedDate: null
NullDate == 0

Null == "null"

(* ----------------------------- input sets ------------------------------ *)

Riders == {"r1@x", "r2@x"}
Districts == {"Dhaka", "Sylhet"}
ParcelIds == {"p1", "p2"}
SubmitSlots == 1..MaxInFlight
AdminSlots == 1..MaxInFlight
BalanceSlots == {1}
PaySlots == 1..MaxInFlight
CashoutIds == 1..MaxCashouts

\* an optional number: <<>> when the field is absent, <<n>> otherwise
Absent == <<>>
Some(n) == <<n>>

ChargeInputs == {Absent, Some(0), Some(200)}
BigCharge == Some(300)

\* bodies of POST /riders/cashout: the well-formed ones, and one with each
\* required field missing
SubmitInputs ==
    [email : Riders, amount : {Some(50), Some(150), Some(300)}, riderName : {"Rider"}]
    \cup {[email |-> Null, amount |-> Some(150), riderName |-> "Rider"],
          [email |-> "r1@x", amount |-> Absent, riderName |-> "Rider"],
          [email |-> "r1@x", amount |-> Some(150), riderName |-> Null]}

\* params and bodies of PATCH /admin/cashout/:id
ResolveInputs ==
    {[id |-> i, status |-> b.status, transactionId |-> b.transactionId, notes |-> b.notes] :
        i \in CashoutIds,
        b \in {[status |-> "Completed", transactionId |-> "tx1", notes |-> "n1"],
               [status |-> "Rejected", transactionId |-> "tx1", notes |-> Null],
               [status |-> "Pending", transactionId |-> Null, notes |-> Null]}}

\* query of GET /riders/balance
EmailInputs == Riders \cup {Null}

(* ------------------------- JavaScript helpers -------------------------- *)

\* !x for a string field of the request (undefined, null)
FalsyStr(x) == x = Null

\* !x for a numeric field of the request (undefined, 0)
FalsyNum(x) == x = Absent \/ x[1] = 0

\* x || 0
OrZero(x) == IF FalsyNum(x) THEN 0 ELSE x[1]

\* x || ""
OrEmpty(x) == IF FalsyStr(x) THEN "" ELSE x

\* parseFloat(amount) of a JSON number
parseFloat(x) == x[1]

RECURSIVE SumSeq(_)
SumSeq(s) == IF s = <<>> THEN 0 ELSE Head(s) + SumSeq(Tail(s))

RECURSIVE SetToSeq(_)
SetToSeq(S) ==
    IF S = {} THEN <<>>
    ELSE LET x == CHOOSE y \in S : TRUE
         IN <<x>> \o SetToSeq(S \ {x})

(* ------------------------------ the store ------------------------------ *)

\* parcelCollection.find({ riderEmail, deliveryStatus: { $in: [...] } })
completedParcels(email) ==
    LET ids == {p \in ParcelIds :
                    /\ parcels[p].riderEmail = email
                    /\ parcels[p].deliveryStatus \in {"Delivery Completed", "SC Delivered"}}
        order == SetToSeq(ids)
    IN [i \in 1..Len(order) |-> parcels[order[i]]]

\* the mutant of calculateEarning: 80% whatever the districts
calculateEarning_SameRate(parcel) ==
    OrZero(parcel.deliveryCharge) * SameDistrictPercentage

calculateEarning(parcel) ==
    LET isSameDistrict == parcel.senderDistrict = parcel.receiverDistrict
        percentage == IF isSameDistrict THEN SameDistrictPercentage
                                        ELSE OtherDistrictPercentage
    IN OrZero(parcel.deliveryCharge) * percentage

\* completedParcels.reduce((sum, parcel) => sum + calculateEarning(parcel), 0)
totalEarningsOf(list) ==
    SumSeq([i \in 1..Len(list) |-> calculateEarning(list[i])])

\* the mutant of pendingCashout: the status is spelt as no document has it
pendingCashout_WrongCase(email) ==
    LET ids == {i \in 1..Len(cashouts) :
                    cashouts[i].riderEmail = email /\ cashouts[i].status = "pending"}
    IN IF ids = {} THEN 0 ELSE CHOOSE i \in ids : \A j \in ids : i <= j

\* the mutant of pendingCashout: a Rejected request blocks like a Pending one
pendingCashout_NotCompleted(email) ==
    LET ids == {i \in 1..Len(cashouts) :
                    cashouts[i].riderEmail = email /\ cashouts[i].status # "Completed"}
    IN IF ids = {} THEN 0 ELSE CHOOSE i \in ids : \A j \in ids : i <= j

\* cashoutCollection.findOne({ riderEmail: email, status: "Pending" })
pendingCashout(email) ==
    LET ids == {i \in 1..Len(cashouts) :
                    cashouts[i].riderEmail = email /\ cashouts[i].status = "Pending"}
    IN IF ids = {} THEN 0 ELSE CHOOSE i \in ids : \A j \in ids : i <= j

(* ------------------------- POST /riders/cashout ------------------------ *)

Idle == [pc |-> "idle"]

\* the slots that hold a request or its response
Open ==
    Cardinality({s \in SubmitSlots : sub[s].pc # "idle"})
    + Cardinality({a \in AdminSlots : adm[a].pc # "idle"})
    + Cardinality({b \in BalanceSlots : bal[b].pc # "idle"})

\* the cashout documents stored or about to be
Planned ==
    Len(cashouts) + Cardinality({s \in SubmitSlots : sub[s].pc \in {"earn", "insert"}})

\* the slots carry no identity: a request takes the lowest free one
LowestFree(slots, s) == \A t \in DOMAIN slots : t < s => slots[t].pc # "idle"

Reply(code, msg) == [status |-> code, success |-> code < 400, message |-> msg]

\* lines 1041-1061: required fields, then the pending lookup
SubmitBegin(s, req) ==
    LET email == req.email
        amount == req.amount
        riderName == req.riderName
    IN
    /\ sub[s].pc = "idle"
    /\ LowestFree(sub, s)
    /\ Open < MaxInFlight
    /\ IF FalsyStr(email) \/ FalsyNum(amount) \/ FalsyStr(riderName)
       THEN sub' = [sub EXCEPT ![s] =
                [pc |-> "done", req |-> req,
                 res |-> Reply(400, "Missing required fields")]]
       ELSE IF pendingCashout(email) # 0
       THEN sub' = [sub EXCEPT ![s] =
                [pc |-> "done", req |-> req,
                 res |-> Reply(400, "You already have a pending cashout request")]]
       ELSE /\ Planned < MaxCashouts
            /\ sub' = [sub EXCEPT ![s] = [pc |-> "earn", req |-> req]]
    /\ UNCHANGED <<parcels, cashouts, now, adm, bal, payments, pay>>

\* the mutant of belowMinimum: the minimum itself is refused
belowMinimum_Inclusive(amount) == amount <= MinCashout

\* line 1092: amount < 100
belowMinimum(amount) == amount < MinCashout

\* lines 1063-1109: earnings of the completed parcels, the two amount checks
SubmitEarnings(s) ==
    /\ sub[s].pc = "earn"
    /\ LET req == sub[s].req
           totalEarnings == totalEarningsOf(completedParcels(req.email))
       IN IF req.amount[1] * Scale > totalEarnings
          THEN sub' = [sub EXCEPT ![s] =
                   [pc |-> "done", req |-> req,
                    res |-> [status |-> 400, success |-> FALSE,
                             message |-> "Insufficient balance",
                             available |-> totalEarnings]]]
          ELSE IF belowMinimum(req.amount[1])
          THEN sub' = [sub EXCEPT ![s] =
                   [pc |-> "done", req |-> req,
                    res |-> Reply(400, "Minimum cashout amount is 100")]]
          ELSE sub' = [sub EXCEPT ![s] =
                   [pc |-> "insert", req |-> req,
                    cashoutRequest |->
                        [riderEmail |-> req.email,
                         riderName |-> req.riderName,
                         amount |-> parseFloat(req.amount),
                         status |-> "Pending",
                         requestDate |-> now,
                         processedDate |-> NullDate,
                         transactionId |-> Null,
                         notes |-> ""]]]
    /\ UNCHANGED <<parcels, cashouts, now, adm, bal, payments, pay>>

\* the mutant of SubmitInsert: replaceOne({ riderEmail }, ..., { upsert: true })
\* in place of insertOne
SubmitInsert_Upsert(s) ==
    /\ sub[s].pc = "insert"
    /\ LET doc == sub[s].cashoutRequest
           ids == {i \in 1..Len(cashouts) : cashouts[i].riderEmail = doc.riderEmail}
           at == IF ids = {} THEN Len(cashouts) + 1
                 ELSE CHOOSE i \in ids : \A j \in ids : i <= j
       IN /\ cashouts' = IF ids = {} THEN Append(cashouts, doc)
                         ELSE [cashouts EXCEPT ![at] = doc]
          /\ sub' = [sub EXCEPT ![s] =
                 [pc |-> "done", req |-> sub[s].req,
                  res |-> [status |-> 201, success |-> TRUE,
                           message |-> "Cashout request submitted successfully",
                           data |-> doc,
                           insertedId |-> at]]]
    /\ UNCHANGED <<parcels, now, adm, bal, payments, pay>>

\* lines 1111-1117: insertOne and the 201 response
SubmitInsert(s) ==
    /\ sub[s].pc = "insert"
    /\ cashouts' = Append(cashouts, sub[s].cashoutRequest)
    /\ sub' = [sub EXCEPT ![s] =
           [pc |-> "done", req |-> sub[s].req,
            res |-> [status |-> 201, success |-> TRUE,
                     message |-> "Cashout request submitted successfully",
                     data |-> sub[s].cashoutRequest,
                     insertedId |-> Len(cashouts) + 1]]]
    /\ UNCHANGED <<parcels, now, adm, bal, payments, pay>>

\* the rider's client has read the response
SubmitReturn(s) ==
    /\ sub[s].pc = "done"
    /\ sub' = [sub EXCEPT ![s] = Idle]
    /\ UNCHANGED <<parcels, cashouts, now, adm, bal, payments, pay>>

(* --------------------- PATCH /admin/cashout/:id ------------------------ *)

\* the mutant of updateDataOf: transactionId is set whatever the status
updateDataOf_AnyStatus(status, transactionId, notes) ==
    LET base == [status |-> status, processedDate |-> now, notes |-> OrEmpty(notes)]
    IN IF ~FalsyStr(transactionId)
       THEN [f \in {"status", "processedDate", "notes", "transactionId"} |->
                IF f = "transactionId" THEN transactionId ELSE base[f]]
       ELSE base

\* lines 1290-1298: the fields of $set
updateDataOf(status, transactionId, notes) ==
    LET base == [status |-> status, processedDate |-> now, notes |-> OrEmpty(notes)]
    IN IF status = "Completed" /\ ~FalsyStr(transactionId)
       THEN [f \in {"status", "processedDate", "notes", "transactionId"} |->
                IF f = "transactionId" THEN transactionId ELSE base[f]]
       ELSE base

\* { $set: updateData } applied to one document
applySet(doc, updateData) ==
    [f \in DOMAIN doc |-> IF f \in DOMAIN updateData THEN updateData[f] ELSE doc[f]]

\* the mutant of allowedStatus: Pending is a target too
allowedStatus_WithPending(status) == status \in {"Completed", "Rejected", "Pending"}

\* line 1283: ["Completed", "Rejected"].includes(status)
allowedStatus(status) == status \in {"Completed", "Rejected"}

\* lines 1280-1298: status validation and updateData
ResolveBegin(a, req) ==
    LET status == req.status
        transactionId == req.transactionId
        notes == req.notes
    IN
    /\ adm[a].pc = "idle"
    /\ LowestFree(adm, a)
    /\ Open < MaxInFlight
    /\ IF ~allowedStatus(status)
       THEN adm' = [adm EXCEPT ![a] =
                [pc |-> "done", req |-> req, res |-> Reply(400, "Invalid status")]]
       ELSE adm' = [adm EXCEPT ![a] =
                [pc |-> "update", req |-> req,
                 updateData |-> updateDataOf(status, transactionId, notes)]]
    /\ UNCHANGED <<parcels, cashouts, now, sub, bal, payments, pay>>

\* lines 1300-1309: updateOne({ _id }, { $set: updateData }) and the response
ResolveUpdate(a) ==
    /\ adm[a].pc = "update"
    /\ LET id == adm[a].req.id
           matched == id \in 1..Len(cashouts)
           after == IF matched THEN applySet(cashouts[id], adm[a].updateData)
                               ELSE adm[a].updateData
           modified == matched /\ after # cashouts[id]
       IN /\ cashouts' = IF matched THEN [cashouts EXCEPT ![id] = after] ELSE cashouts
          /\ adm' = [adm EXCEPT ![a] =
                 [pc |-> "done", req |-> adm[a].req,
                  updateData |-> adm[a].updateData,
                  res |-> [status |-> 200, success |-> TRUE,
                           message |-> IF adm[a].updateData.status = "Completed"
                                       THEN "Cashout request completed"
                                       ELSE "Cashout request rejected",
                           modifiedCount |-> IF modified THEN 1 ELSE 0]]]
    /\ UNCHANGED <<parcels, now, sub, bal, payments, pay>>

\* the administrator's client has read the response
ResolveReturn(a) ==
    /\ adm[a].pc = "done"
    /\ adm' = [adm EXCEPT ![a] = Idle]
    /\ UNCHANGED <<parcels, cashouts, now, sub, bal, payments, pay>>

(* ------------------------- GET /riders/balance ------------------------- *)

\* the mutant of matchCashouted: requests of every status are summed
matchCashouted_AnyStatus(doc, email) ==
    doc.riderEmail = email

\* $match { riderEmail, status in [Completed, Pending] }
matchCashouted(doc, email) ==
    doc.riderEmail = email /\ doc.status \in {"Completed", "Pending"}

\* the aggregate: $match, then $group { _id: null, total: { $sum: "$amount" } }
cashoutedAmount(email) ==
    LET ids == {i \in 1..Len(cashouts) : matchCashouted(cashouts[i], email)}
        order == SetToSeq(ids)
    IN IF ids = {} THEN <<>>
       ELSE <<[total |-> SumSeq([i \in 1..Len(order) |-> cashouts[order[i]].amount])]>>

\* lines 1166-1194: the email check, the completed parcels and their earnings
BalanceBegin(b, email) ==
    /\ bal[b].pc = "idle"
    /\ Open < MaxInFlight
    /\ IF FalsyStr(email)
       THEN bal' = [bal EXCEPT ![b] =
                [pc |-> "done", email |-> email,
                 res |-> Reply(400, "Rider email is required")]]
       ELSE bal' = [bal EXCEPT ![b] =
                [pc |-> "aggregate", email |-> email,
                 totalEarnings |-> totalEarningsOf(completedParcels(email))]]
    /\ UNCHANGED <<parcels, cashouts, now, sub, adm, payments, pay>>

\* lines 1196-1217: the aggregate, totalCashouted and currentBalance
BalanceAggregate(b) ==
    /\ bal[b].pc = "aggregate"
    /\ LET r == bal[b]
           agg == cashoutedAmount(r.email)
           totalCashouted == IF agg = <<>> THEN 0 ELSE agg[1].total
       IN bal' = [bal EXCEPT ![b] =
              [pc |-> "pending", email |-> r.email,
               totalEarnings |-> r.totalEarnings,
               totalCashouted |-> totalCashouted,
               currentBalance |-> r.totalEarnings - totalCashouted * Scale]]
    /\ UNCHANGED <<parcels, cashouts, now, sub, adm, payments, pay>>

\* lines 1219-1234: the pending lookup and the response
BalancePending(b) ==
    /\ bal[b].pc = "pending"
    /\ LET r == bal[b]
           p == pendingCashout(r.email)
       IN bal' = [bal EXCEPT ![b] =
              [pc |-> "done", email |-> r.email,
               res |-> [status |-> 200, success |-> TRUE,
                        data |-> [totalEarnings |-> r.totalEarnings,
                                  totalCashouted |-> r.totalCashouted,
                                  currentBalance |-> r.currentBalance,
                                  hasPendingCashout |-> p # 0,
                                  pendingCashoutAmount |->
                                      IF p = 0 THEN 0 ELSE cashouts[p].amount]]]]
    /\ UNCHANGED <<parcels, cashouts, now, sub, adm, payments, pay>>

\* the rider's client has read the response
BalanceReturn(b) ==
    /\ bal[b].pc = "done"
    /\ bal' = [bal EXCEPT ![b] = Idle]
    /\ UNCHANGED <<parcels, cashouts, now, sub, adm, payments, pay>>

(* ---------------------- PATCH /parcels/:id/status ---------------------- *)

\* lines 646-668.  A delivery that counts towards earnings is not taken back:
\* the ledger's claims are about riders whose completed deliveries stay.
UpdateDeliveryStatus(p, status) ==
    /\ status \in {"In transit", "Delivery Completed"}
    /\ parcels[p].deliveryStatus \notin {"Delivery Completed", "SC Delivered"}
    /\ parcels[p].deliveryStatus # status
    /\ parcels' = [parcels EXCEPT ![p].deliveryStatus = status]
    /\ UNCHANGED <<cashouts, now, sub, adm, bal, payments, pay>>

(* ------------------------------ the clock ------------------------------ *)

\* the dates held by the documents and by the requests under way
DatesInUse ==
    {cashouts[i].requestDate : i \in 1..Len(cashouts)}
    \cup {cashouts[i].processedDate : i \in 1..Len(cashouts)}
    \cup {sub[s].cashoutRequest.requestDate : s \in {t \in SubmitSlots : sub[t].pc = "insert"}}
    \cup {adm[a].updateData.processedDate : a \in {t \in AdminSlots : adm[t].pc = "update"}}

\* new Date() reads now.  Time passes between any two steps; an instant that
\* no new Date() has read is not told apart from the one before it.
Tick ==
    /\ now < MaxTime
    /\ now \in DatesInUse
    /\ now' = now + 1
    /\ UNCHANGED <<parcels, cashouts, sub, adm, bal, payments, pay>>

(* --------------------------- specification ----------------------------- *)

\* p1 is a delivery of r1 that is still under way; p2 was delivered
\* between service centres by either rider
InitParcels ==
    {[p \in ParcelIds |->
        IF p = "p1"
        THEN [riderEmail |-> "r1@x", senderDistrict |-> "Dhaka",
              receiverDistrict |-> d, deliveryCharge |-> c,
              deliveryStatus |-> "In transit",
              createdBy |-> "u1@x", paymentStatus |-> "paid"]
        ELSE [riderEmail |-> r, senderDistrict |-> "Dhaka",
              receiverDistrict |-> "Sylhet", deliveryCharge |-> BigCharge,
              deliveryStatus |-> "SC Delivered",
              createdBy |-> "u1@x", paymentStatus |-> "paid"]] :
     d \in Districts, c \in ChargeInputs, r \in Riders}

Init ==
    /\ parcels \in InitParcels
    /\ cashouts = <<>>
    /\ now = 1
    /\ sub = [s \in SubmitSlots |-> Idle]
    /\ adm = [a \in AdminSlots |-> Idle]
    /\ bal = [b \in BalanceSlots |-> Idle]
    /\ payments = <<>>
    /\ pay = [k \in PaySlots |-> Idle]

Next ==
    \/ \E s \in SubmitSlots, req \in SubmitInputs : SubmitBegin(s, req)
    \/ \E s \in SubmitSlots : SubmitEarnings(s)
    \/ \E s \in SubmitSlots : SubmitInsert(s)
    \/ \E s \in SubmitSlots : SubmitReturn(s)
    \/ \E a \in AdminSlots, req \in ResolveInputs : ResolveBegin(a, req)
    \/ \E a \in AdminSlots : ResolveUpdate(a)
    \/ \E a \in AdminSlots : ResolveReturn(a)
    \/ \E b \in BalanceSlots, email \in EmailInputs : BalanceBegin(b, email)
    \/ \E b \in BalanceSlots : BalanceAggregate(b)
    \/ \E b \in BalanceSlots : BalancePending(b)
    \/ \E b \in BalanceSlots : BalanceReturn(b)
    \/ \E p \in ParcelIds, status \in {"In transit", "Delivery Completed"} :
          UpdateDeliveryStatus(p, status)
    \/ Tick

Spec == Init /\ [][Next]_vars

(* One request at a time: each response is sent and read before the next   *)
(* request arrives.                                                        *)
SeqSubmitBegin(s, req) == Open = 0 /\ SubmitBegin(s, req)

SeqResolveBegin(a, req) == Open = 0 /\ ResolveBegin(a, req)

SeqBalanceBegin(b, email) == Open = 0 /\ BalanceBegin(b, email)

SeqNext ==
    \/ \E s \in SubmitSlots, req \in SubmitInputs : SeqSubmitBegin(s, req)
    \/ \E s \in SubmitSlots : SubmitEarnings(s)
    \/ \E s \in SubmitSlots : SubmitInsert(s)
    \/ \E s \in SubmitSlots : SubmitReturn(s)
    \/ \E a \in AdminSlots, req \in ResolveInputs : SeqResolveBegin(a, req)
    \/ \E a \in AdminSlots : ResolveUpdate(a)
    \/ \E a \in AdminSlots : ResolveReturn(a)
    \/ \E b \in BalanceSlots, email \in EmailInputs : SeqBalanceBegin(b, email)
    \/ \E b \in BalanceSlots : BalanceAggregate(b)
    \/ \E b \in BalanceSlots : BalancePending(b)
    \/ \E b \in BalanceSlots : BalanceReturn(b)
    \/ \E p \in ParcelIds, status \in {"In transit", "Delivery Completed"} :
          UpdateDeliveryStatus(p, status)
    \/ Tick

SeqSpec == Init /\ [][SeqNext]_vars

(* The ledger read while it is written: the requests that write the store   *)
(* (submit, resolve) come one at a time, and a balance request overlaps     *)
(* them at every step.  The balance reads no date, so the clock stands.     *)
Writers ==
    Cardinality({s \in SubmitSlots : sub[s].pc # "idle"})
    + Cardinality({a \in AdminSlots : adm[a].pc # "idle"})

LedgerSubmitBegin(s, req) == Writers = 0 /\ SubmitBegin(s, req)

LedgerResolveBegin(a, req) == Writers = 0 /\ ResolveBegin(a, req)

LedgerNext ==
    \/ \E s \in SubmitSlots, req \in SubmitInputs : LedgerSubmitBegin(s, req)
    \/ \E s \in SubmitSlots : SubmitEarnings(s)
    \/ \E s \in SubmitSlots : SubmitInsert(s)
    \/ \E s \in SubmitSlots : SubmitReturn(s)
    \/ \E a \in AdminSlots, req \in ResolveInputs : LedgerResolveBegin(a, req)
    \/ \E a \in AdminSlots : ResolveUpdate(a)
    \/ \E a \in AdminSlots : ResolveReturn(a)
    \/ \E b \in BalanceSlots, email \in EmailInputs : BalanceBegin(b, email)
    \/ \E b \in BalanceSlots : BalanceAggregate(b)
    \/ \E b \in BalanceSlots : BalancePending(b)
    \/ \E b \in BalanceSlots : BalanceReturn(b)
    \/ \E p \in ParcelIds, status \in {"In transit", "Delivery Completed"} :
          UpdateDeliveryStatus(p, status)

LedgerSpec == Init /\ [][LedgerNext]_vars

(* The two resolutions of one pending request overlap: a resolution is      *)
(* accepted only while no other one has been answered and the request it    *)
(* names is still Pending.                                                  *)
RaceResolveBegin(a, req) ==
    /\ \A t \in AdminSlots : adm[t].pc # "done"
    /\ req.id \in 1..Len(cashouts)
    /\ cashouts[req.id].status = "Pending"
    /\ ResolveBegin(a, req)

RaceNext ==
    \/ \E s \in SubmitSlots, req \in SubmitInputs : SubmitBegin(s, req)
    \/ \E s \in SubmitSlots : SubmitEarnings(s)
    \/ \E s \in SubmitSlots : SubmitInsert(s)
    \/ \E s \in SubmitSlots : SubmitReturn(s)
    \/ \E a \in AdminSlots, req \in ResolveInputs : RaceResolveBegin(a, req)
    \/ \E a \in AdminSlots : ResolveUpdate(a)
    \/ \E p \in ParcelIds, status \in {"In transit", "Delivery Completed"} :
          UpdateDeliveryStatus(p, status)
    \/ Tick

RaceSpec == Init /\ [][RaceNext]_vars

(* The calls of the contract, one at a time, each with the identity its      *)
(* token carries: amounts at and around the minimum and the full balance,   *)
(* an amount that is not positive, a body that names another rider, a       *)
(* resolution without a status.  No date these calls store is asked about,  *)
(* so the clock stands.                                                     *)

\* the accounts of userCollection: the two riders and a plain user
Accounts == Riders \cup {"u1@x"}

\* userCollection.findOne({ email }).role
roleOf(email) == IF email \in Riders THEN "rider" ELSE "user"

\* lines 399-407: !user || user.role !== "rider" answers 403
verifyRider(decoded) == decoded \in Accounts /\ roleOf(decoded) = "rider"

\* req.decoded.email and req.body of POST /riders/cashout
ContractSubmitInputs ==
    {[decoded |-> "r1@x", email |-> "r1@x", amount |-> Some(n), riderName |-> "Rider"] :
        n \in {-5, 0, 50, 99, 100, 150, 160, 300}}
    \cup {[decoded |-> "r1@x", email |-> Null, amount |-> Some(150), riderName |-> "Rider"],
          [decoded |-> "r1@x", email |-> "r1@x", amount |-> Absent, riderName |-> "Rider"],
          [decoded |-> "r1@x", email |-> "r1@x", amount |-> Some(150), riderName |-> Null],
          [decoded |-> "r2@x", email |-> "r2@x", amount |-> Some(150), riderName |-> "Rider"],
          [decoded |-> "r2@x", email |-> "r1@x", amount |-> Some(150), riderName |-> "Rider"],
          [decoded |-> "u1@x", email |-> "r1@x", amount |-> Some(150), riderName |-> "Rider"]}

\* params and bodies of PATCH /admin/cashout/:id, also without status
ContractResolveInputs ==
    ResolveInputs
    \cup {[id |-> i, status |-> Null, transactionId |-> Null, notes |-> Null] :
            i \in CashoutIds}

\* lines 1035-1061: verifyRider, then the handler
ContractSubmitBegin(s, req) ==
    /\ Open = 0
    /\ IF verifyRider(req.decoded)
       THEN SubmitBegin(s, req)
       ELSE /\ sub[s].pc = "idle"
            /\ LowestFree(sub, s)
            /\ sub' = [sub EXCEPT ![s] =
                   [pc |-> "done", req |-> req,
                    res |-> [status |-> 403, success |-> FALSE,
                             message |-> "forbidden access"]]]
            /\ UNCHANGED <<parcels, cashouts, now, adm, bal, payments, pay>>

ContractNext ==
    \/ \E s \in SubmitSlots, req \in ContractSubmitInputs : ContractSubmitBegin(s, req)
    \/ \E s \in SubmitSlots : SubmitEarnings(s)
    \/ \E s \in SubmitSlots : SubmitInsert(s)
    \/ \E s \in SubmitSlots : SubmitReturn(s)
    \/ \E a \in AdminSlots, req \in ContractResolveInputs : SeqResolveBegin(a, req)
    \/ \E a \in AdminSlots : ResolveUpdate(a)
    \/ \E a \in AdminSlots : ResolveReturn(a)
    \/ \E b \in BalanceSlots, email \in EmailInputs : SeqBalanceBegin(b, email)
    \/ \E b \in BalanceSlots : BalanceAggregate(b)
    \/ \E b \in BalanceSlots : BalancePending(b)
    \/ \E b \in BalanceSlots : BalanceReturn(b)
    \/ \E p \in ParcelIds, status \in {"In transit", "Delivery Completed"} :
          UpdateDeliveryStatus(p, status)

ContractSpec == Init /\ [][ContractNext]_vars

(* The resolutions of the contract under the clock: one call at a time,     *)
(* time passing between any two steps, for a rider whose deliveries earn    *)
(* more than one request.                                                   *)

\* params and bodies of PATCH /admin/cashout/:id, also a completion that
\* supplies no transactionId
TimedResolveInputs ==
    ContractResolveInputs
    \cup {[id |-> i, status |-> "Completed", transactionId |-> Null, notes |-> Null] :
            i \in CashoutIds}

\* both parcels are r1's: p1 within Dhaka and under way, p2 delivered
TimedInit ==
    /\ parcels = [p \in ParcelIds |->
           [riderEmail |-> "r1@x", senderDistrict |-> "Dhaka",
            receiverDistrict |-> IF p = "p1" THEN "Dhaka" ELSE "Sylhet",
            deliveryCharge |-> IF p = "p1" THEN Some(200) ELSE BigCharge,
            deliveryStatus |-> IF p = "p1" THEN "In transit" ELSE "SC Delivered",
            createdBy |-> "u1@x", paymentStatus |-> "paid"]]
    /\ cashouts = <<>>
    /\ now = 1
    /\ sub = [s \in SubmitSlots |-> Idle]
    /\ adm = [a \in AdminSlots |-> Idle]
    /\ bal = [b \in BalanceSlots |-> Idle]
    /\ payments = <<>>
    /\ pay = [k \in PaySlots |-> Idle]

TimedNext ==
    \/ \E s \in SubmitSlots, req \in SubmitInputs : SeqSubmitBegin(s, req)
    \/ \E s \in SubmitSlots : SubmitEarnings(s)
    \/ \E s \in SubmitSlots : SubmitInsert(s)
    \/ \E s \in SubmitSlots : SubmitReturn(s)
    \/ \E a \in AdminSlots, req \in TimedResolveInputs : SeqResolveBegin(a, req)
    \/ \E a \in AdminSlots : ResolveUpdate(a)
    \/ \E a \in AdminSlots : ResolveReturn(a)
    \/ \E p \in ParcelIds, status \in {"In transit", "Delivery Completed"} :
          UpdateDeliveryStatus(p, status)
    \/ Tick

TimedSpec == TimedInit /\ [][TimedNext]_vars

(* ---------------------------- POST /payments --------------------------- *)

\* req.body of POST /payments: a payment of each parcel by its sender with an
\* intent that succeeded, then one body for each way the call is refused
PayInputs ==
    {[parcelId |-> p, transactionId |-> "pi_paid", email |-> "u1@x"] : p \in ParcelIds}
    \cup {[parcelId |-> "p1", transactionId |-> "pi_open", email |-> "u1@x"],
          [parcelId |-> "p1", transactionId |-> "pi_none", email |-> "u1@x"],
          [parcelId |-> "p1", transactionId |-> "pi_paid", email |-> "u2@x"],
          [parcelId |-> "p1", transactionId |-> "pi_paid", email |-> Null],
          [parcelId |-> "p9", transactionId |-> "pi_paid", email |-> "u1@x"],
          [parcelId |-> "bad", transactionId |-> "pi_paid", email |-> "u1@x"]}

\* ObjectId.isValid(parcelId)
ObjectIdIsValid(id) == id # "bad"

\* stripe.paymentIntents.retrieve(transactionId): the intents Stripe holds;
\* the retrieval of any other id throws
StripeIntents == {"pi_paid", "pi_open"}

paymentIntentOf(transactionId) ==
    IF transactionId = "pi_paid"
    THEN [status |-> "succeeded", amount |-> 20000, currency |-> "bdt"]
    ELSE [status |-> "requires_payment_method", amount |-> 20000, currency |-> "bdt"]

\* new Date().toISOString()
toISOString(date) == <<"ISO", date>>

\* the payment calls that hold a request or its response
PayOpen == Cardinality({k \in PaySlots : pay[k].pc # "idle"})

\* lines 938-967: the two body checks, parcelCollection.findOne and the checks
\* of the parcel it returned
PayBegin(k, req) ==
    LET parcelId == req.parcelId
        email == req.email
        found == parcelId \in ParcelIds
        refuse(code, msg) ==
            pay' = [pay EXCEPT ![k] =
                [pc |-> "done", req |-> req, res |-> [status |-> code, message |-> msg]]]
    IN
    /\ pay[k].pc = "idle"
    /\ LowestFree(pay, k)
    /\ PayOpen < MaxInFlight
    /\ IF ~ObjectIdIsValid(parcelId) THEN refuse(400, "Invalid parcel ID")
       ELSE IF FalsyStr(email) THEN refuse(400, "User email required")
       ELSE IF ~found THEN refuse(404, "Parcel not found")
       ELSE IF parcels[parcelId].createdBy # email
            THEN refuse(403, "Unauthorized payment attempt")
       ELSE IF parcels[parcelId].paymentStatus = "paid"
            THEN refuse(400, "Parcel already paid")
       ELSE pay' = [pay EXCEPT ![k] = [pc |-> "retrieve", req |-> req]]
    /\ UNCHANGED <<parcels, cashouts, payments, now, sub, adm, bal>>

\* lines 969-986: stripe.paymentIntents.retrieve, the status check, paymentDoc
PayRetrieve(k) ==
    /\ pay[k].pc = "retrieve"
    /\ LET req == pay[k].req
           paymentIntent == paymentIntentOf(req.transactionId)
       IN IF req.transactionId \notin StripeIntents
          THEN pay' = [pay EXCEPT ![k] =
                   [pc |-> "done", req |-> req,
                    res |-> [status |-> 500, message |-> "Failed to save payment"]]]
          ELSE IF paymentIntent.status # "succeeded"
          THEN pay' = [pay EXCEPT ![k] =
                   [pc |-> "done", req |-> req,
                    res |-> [status |-> 400, message |-> "Payment not successful"]]]
          ELSE pay' = [pay EXCEPT ![k] =
                   [pc |-> "insert", req |-> req,
                    paymentDoc |->
                        [parcelId |-> req.parcelId,
                         transactionId |-> req.transactionId,
                         amount |-> paymentIntent.amount \div 100,
                         currency |-> paymentIntent.currency,
                         paidBy |-> req.email,
                         paidAt |-> now,
                         paidAtString |-> toISOString(now)]]]
    /\ UNCHANGED <<parcels, cashouts, payments, now, sub, adm, bal>>

\* line 988: paymentCollection.insertOne(paymentDoc)
PayInsert(k) ==
    /\ pay[k].pc = "insert"
    /\ payments' = Append(payments, pay[k].paymentDoc)
    /\ pay' = [pay EXCEPT ![k] =
           [pc |-> "update", req |-> pay[k].req, insertedId |-> Len(payments) + 1]]
    /\ UNCHANGED <<parcels, cashouts, now, sub, adm, bal>>

\* lines 990-1001: parcelCollection.updateOne({ _id }, { $set: { paymentStatus:
\* "paid" } }) and the response
PayUpdate(k) ==
    /\ pay[k].pc = "update"
    /\ parcels' = [parcels EXCEPT ![pay[k].req.parcelId].paymentStatus = "paid"]
    /\ pay' = [pay EXCEPT ![k] =
           [pc |-> "done", req |-> pay[k].req,
            res |-> [status |-> 200, success |-> TRUE,
                     paymentId |-> pay[k].insertedId]]]
    /\ UNCHANGED <<cashouts, payments, now, sub, adm, bal>>

\* the sender's client has read the response
PayReturn(k) ==
    /\ pay[k].pc = "done"
    /\ pay' = [pay EXCEPT ![k] = Idle]
    /\ UNCHANGED <<parcels, cashouts, payments, now, sub, adm, bal>>

\* two parcels booked by u1 and not yet paid, collected or assigned
PayInit ==
    /\ parcels = [p \in ParcelIds |->
           [riderEmail |-> Null, senderDistrict |-> "Dhaka",
            receiverDistrict |-> IF p = "p1" THEN "Dhaka" ELSE "Sylhet",
            deliveryCharge |-> Some(200),
            deliveryStatus |-> "not_collected",
            createdBy |-> "u1@x", paymentStatus |-> "unpaid"]]
    /\ cashouts = <<>>
    /\ payments = <<>>
    /\ now = 1
    /\ sub = [s \in SubmitSlots |-> Idle]
    /\ adm = [a \in AdminSlots |-> Idle]
    /\ bal = [b \in BalanceSlots |-> Idle]
    /\ pay = [k \in PaySlots |-> Idle]

PayNext ==
    \/ \E k \in PaySlots, req \in PayInputs : PayBegin(k, req)
    \/ \E k \in PaySlots : PayRetrieve(k)
    \/ \E k \in PaySlots : PayInsert(k)
    \/ \E k \in PaySlots : PayUpdate(k)
    \/ \E k \in PaySlots : PayReturn(k)

PaySpec == PayInit /\ [][PayNext]_vars

(* ============================ the ledger ================================ *)
(* The balance as the specification defines it, computed from the store.   *)

RECURSIVE SumOver(_, _)
SumOver(f, S) ==
    IF S = {} THEN 0
    ELSE LET x == CHOOSE y \in S : TRUE IN f[x] + SumOver(f, S \ {x})

EarningEligible(email) ==
    {p \in ParcelIds : /\ parcels[p].riderEmail = email
                       /\ \/ parcels[p].deliveryStatus = "Delivery Completed"
                          \/ parcels[p].deliveryStatus = "SC Delivered"}

\* 80% of the charge within a district, 30% across districts, in hundredths
LedgerEarning(p) ==
    LET c == parcels[p].deliveryCharge
    IN IF c = Absent THEN 0
       ELSE IF parcels[p].senderDistrict = parcels[p].receiverDistrict
            THEN 80 * c[1]
            ELSE 30 * c[1]

LedgerEarnings(email) ==
    SumOver([p \in ParcelIds |-> LedgerEarning(p)], EarningEligible(email))

Committed(email) ==
    {i \in 1..Len(cashouts) : /\ cashouts[i].riderEmail = email
                              /\ cashouts[i].status # "Rejected"}

LedgerCommitted(email) ==
    SumOver([i \in 1..Len(cashouts) |-> cashouts[i].amount], Committed(email))

LedgerBalance(email) == LedgerEarnings(email) - 100 * LedgerCommitted(email)

PendingOf(email) ==
    {i \in 1..Len(cashouts) : /\ cashouts[i].riderEmail = email
                              /\ cashouts[i].status = "Pending"}

Succeeded(slot) == slot.pc = "done" /\ slot.res.success

(* ============================== claims ================================== *)

\* C1: in every reachable state each rider has at most one cashout request
\* whose status is Pending.
C1_AtMostOnePending ==
    \A r \in Riders : Cardinality(PendingOf(r)) <= 1

\* C2: of the submit calls of one rider that run concurrently, each with a
\* valid amount and no Pending request beforehand, exactly one succeeds: no two
\* answered calls of a rider have both created a request that is still Pending.
C2_OneConcurrentSubmitSucceeds ==
    \A s, t \in SubmitSlots :
        (/\ s # t
         /\ Succeeded(sub[s]) /\ Succeeded(sub[t])
         /\ sub[s].req.email = sub[t].req.email
         /\ cashouts[sub[s].res.insertedId].status = "Pending")
        => cashouts[sub[t].res.insertedId].status # "Pending"

\* C3: immediately after a submit has created a Pending request, the rider's
\* total earnings minus the Pending and Completed amounts is not negative.
C3_SubmitKeepsBalanceNonNegative ==
    [][\A s \in SubmitSlots :
          (sub[s].pc = "insert" /\ sub'[s].pc = "done")
          => LedgerBalance(sub[s].req.email)' >= 0]_vars

\* C4: a submit of at least 100 that exceeds the rider's current balance, the
\* rider having no Pending request, fails with InsufficientBalance and creates
\* no record.
C4_OverBalanceIsInsufficient ==
    [][\A s \in SubmitSlots :
          (/\ sub[s].pc = "earn" /\ sub'[s].pc # "earn"
           /\ sub[s].req.amount[1] >= 100
           /\ sub[s].req.amount[1] * 100 > LedgerBalance(sub[s].req.email)
           /\ PendingOf(sub[s].req.email) = {})
          => /\ sub'[s].pc = "done"
             /\ sub'[s].res.message = "Insufficient balance"
             /\ cashouts' = cashouts]_vars

\* C5: the balance operation returns currentBalance = the earnings of the
\* rider's deliveries with status Delivery Completed or SC Delivered, minus the
\* amounts of the rider's Pending and Completed requests; Rejected requests
\* and other riders' records contribute nothing.
C5_BalanceOf ==
    [][\A b \in BalanceSlots :
          /\ (bal[b].pc = "idle" /\ bal'[b].pc = "aggregate")
                => bal'[b].totalEarnings = LedgerEarnings(bal'[b].email)
          /\ (bal[b].pc = "aggregate" /\ bal'[b].pc = "pending")
                => /\ bal'[b].totalCashouted = LedgerCommitted(bal[b].email)
                   /\ bal'[b].currentBalance =
                         bal[b].totalEarnings - 100 * LedgerCommitted(bal[b].email)
          /\ (bal[b].pc = "pending" /\ bal'[b].pc = "done")
                => /\ bal'[b].res.data.totalEarnings = bal[b].totalEarnings
                   /\ bal'[b].res.data.currentBalance = bal[b].currentBalance]_vars

\* C5 witness: a balance answered for a rider who has a Rejected request and a
\* committed one, while another rider has a delivered parcel.
C5_Witness ==
    \E b \in BalanceSlots :
        /\ Succeeded(bal[b])
        /\ \E i \in 1..Len(cashouts) :
              cashouts[i].riderEmail = bal[b].email /\ cashouts[i].status = "Rejected"
        /\ Committed(bal[b].email) # {}
        /\ \E r \in Riders : r # bal[b].email /\ EarningEligible(r) # {}
        /\ bal[b].res.data.totalCashouted = 150
        /\ bal[b].res.data.currentBalance = LedgerBalance(bal[b].email)
        /\ bal[b].res.data.currentBalance = 1000

\* C6: the earning of a delivery is 80% of its charge when the sender district
\* equals the receiver district and 30% otherwise; a charge of 0 or no charge
\* earns 0.  Stated of every computation over a single delivery record.
C6_Earning ==
    [][/\ \A b \in BalanceSlots :
              (bal[b].pc = "idle" /\ bal'[b].pc = "aggregate")
              => \A p \in ParcelIds :
                    EarningEligible(bal'[b].email) = {p}
                    => bal'[b].totalEarnings = LedgerEarning(p)
       /\ \A s \in SubmitSlots :
              (sub[s].pc = "earn" /\ sub'[s].pc = "done"
                  /\ sub'[s].res.message = "Insufficient balance")
              => \A p \in ParcelIds :
                    EarningEligible(sub[s].req.email) = {p}
                    => sub'[s].res.available = LedgerEarning(p)]_vars

\* C6 witness: earnings computed over one same-district delivery of charge 200
\* (160) while a submit was answered with the earnings of one delivery across
\* districts of charge 300 (90).
C6_Witness ==
    /\ \E b \in BalanceSlots :
          /\ bal[b].pc = "aggregate"
          /\ \E p \in ParcelIds :
                /\ EarningEligible(bal[b].email) = {p}
                /\ parcels[p].senderDistrict = parcels[p].receiverDistrict
                /\ parcels[p].deliveryCharge = Some(200)
          /\ bal[b].totalEarnings = 16000
    /\ \E s \in SubmitSlots :
          /\ sub[s].pc = "done"
          /\ sub[s].res.message = "Insufficient balance"
          /\ sub[s].res.available = 9000

\* C7: a resolve of a request that is already Completed or Rejected fails and
\* leaves the request unchanged.
C7_ResolveOfTerminalIsRefused ==
    [][\A a \in AdminSlots :
          (/\ adm[a].pc = "update" /\ adm'[a].pc = "done"
           /\ adm[a].req.id \in 1..Len(cashouts)
           /\ cashouts[adm[a].req.id].status \in {"Completed", "Rejected"})
          => /\ ~adm'[a].res.success
             /\ cashouts' = cashouts]_vars

\* C8: a request is created Pending, and its status only ever changes from
\* Pending to Completed or from Pending to Rejected.
C8_OnlyPendingToTerminal ==
    [][/\ \A i \in 1..Len(cashouts) :
              cashouts'[i].status # cashouts[i].status
              => /\ cashouts[i].status = "Pending"
                 /\ cashouts'[i].status \in {"Completed", "Rejected"}
       /\ \A i \in (Len(cashouts) + 1)..Len(cashouts') :
              cashouts'[i].status = "Pending"]_vars

\* C9: of two resolve calls for the same Pending request that run concurrently
\* at most one succeeds, and the request holds what that one wrote.
C9_OneConcurrentResolveSucceeds ==
    \A a, b \in AdminSlots :
        (/\ a # b
         /\ adm[a].pc = "done" /\ adm[b].pc = "done"
         /\ adm[a].req.id = adm[b].req.id
         /\ adm[a].req.status \in {"Completed", "Rejected"}
         /\ adm[b].req.status \in {"Completed", "Rejected"})
        => /\ ~(adm[a].res.success /\ adm[b].res.success)
           /\ adm[a].res.success
                 => cashouts[adm[a].req.id].status = adm[a].updateData.status

\* C10: submit validation reports BelowMinimum before InsufficientBalance: an
\* amount below 100 that also exceeds the rider's balance, with no Pending
\* request, fails with BelowMinimum.
C10_BelowMinimumFirst ==
    [][\A s \in SubmitSlots :
          (/\ sub[s].pc = "earn" /\ sub'[s].pc # "earn"
           /\ sub[s].req.amount[1] < 100
           /\ sub[s].req.amount[1] * 100 > LedgerBalance(sub[s].req.email)
           /\ PendingOf(sub[s].req.email) = {})
          => /\ sub'[s].pc = "done"
             /\ sub'[s].res.message = "Minimum cashout amount is 100"]_vars

\* C11: for a rider with no Pending request and a balance that covers the
\* amount, a submit of a positive amount below 100 (99) fails with BelowMinimum
\* and creates no record, and a submit of exactly 100 succeeds and creates a
\* Pending request.
C11_MinimumBoundary ==
    [][\A s \in SubmitSlots :
          LET req == sub[s].req IN
          /\ (/\ sub[s].pc = "earn" /\ sub'[s].pc # "earn"
              /\ PendingOf(req.email) = {}
              /\ req.amount[1] * 100 <= LedgerBalance(req.email))
             => /\ (req.amount[1] > 0 /\ req.amount[1] < 100)
                   => /\ sub'[s].pc = "done"
                      /\ sub'[s].res.status = 400
                      /\ sub'[s].res.message = "Minimum cashout amount is 100"
                      /\ cashouts' = cashouts
                /\ req.amount[1] = 100 => sub'[s].pc = "insert"
          /\ (sub[s].pc = "insert" /\ sub'[s].pc # "insert" /\ req.amount[1] = 100)
             => /\ sub'[s].pc = "done"
                /\ sub'[s].res.status = 201
                /\ Len(cashouts') = Len(cashouts) + 1
                /\ cashouts'[Len(cashouts')].status = "Pending"
                /\ cashouts'[Len(cashouts')].amount = 100
                /\ cashouts'[Len(cashouts')].riderEmail = req.email]_vars

\* C11 witness: a request of 100 was created, and later a submit of 99 by the
\* same rider, with no Pending request and at least 99 of balance, was refused
\* for being below the minimum.
C11_Witness ==
    \E s \in SubmitSlots :
        /\ sub[s].pc = "done"
        /\ sub[s].req.amount = Some(99)
        /\ sub[s].res.message = "Minimum cashout amount is 100"
        /\ PendingOf(sub[s].req.email) = {}
        /\ LedgerBalance(sub[s].req.email) >= 9900
        /\ \E i \in 1..Len(cashouts) :
              cashouts[i].riderEmail = sub[s].req.email /\ cashouts[i].amount = 100

\* C12: while a rider has a Pending request, every further submit for that
\* rider with a positive amount, whether below the minimum, above the balance
\* or valid, fails with DuplicatePending and creates no record.
C12_DuplicatePending ==
    [][\A s \in SubmitSlots :
          (/\ sub[s].pc = "idle" /\ sub'[s].pc # "idle"
           /\ verifyRider(sub'[s].req.decoded)
           /\ sub'[s].req.email \in Riders
           /\ sub'[s].req.riderName # Null
           /\ sub'[s].req.amount # Absent
           /\ sub'[s].req.amount[1] > 0
           /\ PendingOf(sub'[s].req.email) # {})
          => /\ sub'[s].pc = "done"
             /\ sub'[s].res.status = 400
             /\ sub'[s].res.message = "You already have a pending cashout request"
             /\ cashouts' = cashouts]_vars

\* C12 witness: a submit of 100, which the rider's balance covers, refused
\* because the rider's earlier request is still Pending.
C12_Witness ==
    \E s \in SubmitSlots :
        /\ sub[s].pc = "done"
        /\ sub[s].req.amount = Some(100)
        /\ sub[s].res.message = "You already have a pending cashout request"
        /\ PendingOf(sub[s].req.email) # {}
        /\ LedgerBalance(sub[s].req.email) >= 10000

\* C13: a resolve call whose target status is not Completed or Rejected,
\* Pending and a missing status included, fails with InvalidStatus and leaves
\* the request unchanged.
C13_InvalidStatus ==
    [][\A a \in AdminSlots :
          (/\ adm[a].pc = "idle" /\ adm'[a].pc # "idle"
           /\ adm'[a].req.status \notin {"Completed", "Rejected"})
          => /\ adm'[a].pc = "done"
             /\ adm'[a].res.status = 400
             /\ adm'[a].res.message = "Invalid status"
             /\ cashouts' = cashouts]_vars

\* C13 witness: a resolve without a status, of a stored Pending request, was
\* answered InvalidStatus.
C13_Witness ==
    \E a \in AdminSlots :
        /\ adm[a].pc = "done"
        /\ adm[a].req.status = Null
        /\ adm[a].res.message = "Invalid status"
        /\ adm[a].req.id \in 1..Len(cashouts)
        /\ cashouts[adm[a].req.id].status = "Pending"

\* C14: a resolve call with a valid target status and an id that matches no
\* stored cashout request fails with NotFound (404) and changes no record; it
\* does not report success.
C14_UnknownIdIsNotFound ==
    [][\A a \in AdminSlots :
          (/\ adm[a].pc = "update" /\ adm'[a].pc # "update"
           /\ adm[a].req.id \notin 1..Len(cashouts))
          => /\ adm'[a].pc = "done"
             /\ adm'[a].res.status = 404
             /\ ~adm'[a].res.success
             /\ cashouts' = cashouts]_vars

RejectedOf(email) ==
    {i \in 1..Len(cashouts) : /\ cashouts[i].riderEmail = email
                              /\ cashouts[i].status = "Rejected"}

\* C15: once a rider's Pending request is resolved to Rejected its amount no
\* longer counts against the balance and the rider can submit again for up to
\* the full balance: a rider whose requests are all Rejected is reported the
\* whole earnings as currentBalance, and a submit by a rider with a Rejected and
\* no Pending request, of at least 100 and at most the balance, is accepted and
\* creates a Pending request (earnings 160: 150 Rejected, then 160 accepted).
C15_RejectedFreesBalance ==
    [][/\ \A b \in BalanceSlots :
              (/\ bal[b].pc = "aggregate" /\ bal'[b].pc = "pending"
               /\ RejectedOf(bal[b].email) # {}
               /\ Committed(bal[b].email) = {})
              => /\ bal'[b].totalCashouted = 0
                 /\ bal'[b].currentBalance = bal[b].totalEarnings
       /\ \A s \in SubmitSlots :
              /\ (/\ sub[s].pc = "idle" /\ sub'[s].pc # "idle"
                  /\ verifyRider(sub'[s].req.decoded)
                  /\ sub'[s].req.email \in Riders
                  /\ sub'[s].req.riderName # Null
                  /\ sub'[s].req.amount # Absent
                  /\ sub'[s].req.amount[1] > 0
                  /\ RejectedOf(sub'[s].req.email) # {}
                  /\ PendingOf(sub'[s].req.email) = {})
                 => sub'[s].pc = "earn"
              /\ (/\ sub[s].pc = "earn" /\ sub'[s].pc # "earn"
                  /\ RejectedOf(sub[s].req.email) # {}
                  /\ PendingOf(sub[s].req.email) = {}
                  /\ sub[s].req.amount[1] >= 100
                  /\ sub[s].req.amount[1] * 100 <= LedgerBalance(sub[s].req.email))
                 => sub'[s].pc = "insert"
              /\ (/\ sub[s].pc = "insert" /\ sub'[s].pc # "insert"
                  /\ RejectedOf(sub[s].req.email) # {})
                 => /\ sub'[s].pc = "done"
                    /\ sub'[s].res.status = 201
                    /\ Len(cashouts') = Len(cashouts) + 1
                    /\ cashouts'[Len(cashouts')].status = "Pending"
                    /\ cashouts'[Len(cashouts')].amount = sub[s].req.amount[1]
                    /\ PendingOf(sub[s].req.email)' = {Len(cashouts')}]_vars

\* C15 witness: the rider has earned 160, the request of 150 is Rejected, and
\* the submit of 160 that followed was answered 201 and is Pending.
C15_Witness ==
    \E s \in SubmitSlots :
        /\ sub[s].pc = "done"
        /\ sub[s].res.status = 201
        /\ sub[s].req.amount = Some(160)
        /\ LedgerEarnings(sub[s].req.email) = 16000
        /\ Len(cashouts) = 2
        /\ cashouts[1].riderEmail = sub[s].req.email
        /\ cashouts[1].amount = 150 /\ cashouts[1].status = "Rejected"
        /\ cashouts[2].riderEmail = sub[s].req.email
        /\ cashouts[2].amount = 160 /\ cashouts[2].status = "Pending"

\* C16: a submit by an authenticated rider with no rider id, no rider name, no
\* amount, or an amount that is zero or negative fails with InvalidInput, not
\* with BelowMinimum or InsufficientBalance, and creates no record.
C16_InvalidInput ==
    [][\A s \in SubmitSlots :
          (/\ sub[s].pc # "done" /\ sub'[s].pc = "done"
           /\ verifyRider(sub'[s].req.decoded)
           /\ \/ sub'[s].req.email = Null
              \/ sub'[s].req.riderName = Null
              \/ sub'[s].req.amount = Absent
              \/ sub'[s].req.amount[1] <= 0)
          => /\ sub'[s].res.status = 400
             /\ sub'[s].res.message = "Missing required fields"
             /\ cashouts' = cashouts]_vars

\* C17: a submit succeeds only when the rider id in the request is the
\* authenticated caller's identity and the caller has the role rider: no
\* answered call has created a request against another rider's identity.
C17_SubmitOnlyOwnIdentity ==
    \A s \in SubmitSlots :
        (sub[s].pc = "done" /\ sub[s].res.status = 201)
        => /\ roleOf(sub[s].req.decoded) = "rider"
           /\ sub[s].req.email = sub[s].req.decoded

\* C18: in every reachable state, for every cashout request, processedDate is
\* null exactly when the status is Pending, and transactionId is non-null only
\* when the status is Completed.
C18_DatesAndSettlement ==
    \A i \in 1..Len(cashouts) :
        /\ cashouts[i].processedDate = NullDate <=> cashouts[i].status = "Pending"
        /\ cashouts[i].transactionId # Null => cashouts[i].status = "Completed"

\* C19: a successful submit adds exactly one cashout record, for the rider the
\* request names, with the requested amount, status Pending, processedDate
\* null, transactionId null and empty notes, and changes no existing cashout
\* record and no delivery record; no other step of a submit adds a record.
C19_SubmitFrame ==
    [][\A s \in SubmitSlots :
          /\ (sub[s].pc # "done" /\ sub'[s].pc = "done" /\ sub'[s].res.status = 201)
             => /\ Len(cashouts') = Len(cashouts) + 1
                /\ SubSeq(cashouts', 1, Len(cashouts)) = cashouts
                /\ LET new == cashouts'[Len(cashouts')]
                       req == sub'[s].req
                   IN /\ new.riderEmail = req.email
                      /\ new.riderName = req.riderName
                      /\ new.amount = req.amount[1]
                      /\ new.status = "Pending"
                      /\ new.requestDate \in 1..now
                      /\ new.processedDate = NullDate
                      /\ new.transactionId = Null
                      /\ new.notes = ""
                /\ parcels' = parcels
          /\ (sub'[s] # sub[s] /\ ~(sub'[s].pc = "done" /\ sub'[s].res.status = 201))
             => cashouts' = cashouts /\ parcels' = parcels]_vars

\* C19 witness: a submit answered 201 whose record is the second one stored,
\* after a record of the same rider that has been Completed.
C19_Witness ==
    \E s \in SubmitSlots :
        /\ sub[s].pc = "done"
        /\ sub[s].res.status = 201
        /\ Len(cashouts) = 2
        /\ cashouts[2] = sub[s].res.data
        /\ cashouts[2].riderEmail = sub[s].req.email
        /\ cashouts[2].status = "Pending"
        /\ cashouts[1].riderEmail = sub[s].req.email
        /\ cashouts[1].status = "Completed"
        /\ cashouts[1].transactionId = "tx1"

\* C20: a successful resolve of a Pending request sets the status to the
\* target, sets processedDate to the time the call read the clock, records
\* transactionId when the target is Completed and one is supplied (and none
\* otherwise), and leaves the request's rider, amount and requestDate, and
\* every other cashout request, unchanged.
C20_ResolveFrame ==
    [][\A a \in AdminSlots :
          /\ (adm[a].pc = "idle" /\ adm'[a].pc = "update")
             => adm'[a].updateData.processedDate = now
          /\ (/\ adm[a].pc = "update" /\ adm'[a].pc # "update"
              /\ adm[a].req.id \in 1..Len(cashouts)
              /\ cashouts[adm[a].req.id].status = "Pending")
             => LET id == adm[a].req.id
                    req == adm[a].req
                    old == cashouts[id]
                    new == cashouts'[id]
                IN /\ adm'[a].pc = "done"
                   /\ adm'[a].res.status = 200
                   /\ adm'[a].res.modifiedCount = 1
                   /\ new.status = req.status
                   /\ new.processedDate = adm[a].updateData.processedDate
                   /\ new.processedDate \in 1..now
                   /\ new.transactionId =
                         IF req.status = "Completed" /\ req.transactionId # Null
                         THEN req.transactionId ELSE Null
                   /\ new.riderEmail = old.riderEmail
                   /\ new.riderName = old.riderName
                   /\ new.amount = old.amount
                   /\ new.requestDate = old.requestDate
                   /\ Len(cashouts') = Len(cashouts)
                   /\ \A j \in 1..Len(cashouts) : j # id => cashouts'[j] = cashouts[j]]_vars

\* C20 witness: the second request, made at time 1, was Pending and has been
\* resolved to Completed with transaction tx1 at time 2; the first request is
\* as its rejection left it.
C20_Witness ==
    \E a \in AdminSlots :
        /\ adm[a].pc = "done"
        /\ adm[a].res.status = 200
        /\ adm[a].res.modifiedCount = 1
        /\ adm[a].req.id = 2
        /\ adm[a].req.status = "Completed"
        /\ Len(cashouts) = 2
        /\ cashouts[2].status = "Completed"
        /\ cashouts[2].transactionId = "tx1"
        /\ cashouts[2].requestDate = 1
        /\ cashouts[2].processedDate = 2
        /\ cashouts[2].amount = 150
        /\ cashouts[1].status = "Rejected"
        /\ cashouts[1].transactionId = Null
        /\ cashouts[1].processedDate = 1

PaymentsOf(parcelId) == {i \in 1..Len(payments) : payments[i].parcelId = parcelId}

\* C21: under any interleaving of POST /payments calls for the same parcel
\* whose payment intent has succeeded, at most one payment record is inserted
\* for that parcel.
C21_AtMostOnePaymentPerParcel ==
    \A p \in ParcelIds : Cardinality(PaymentsOf(p)) <= 1

====
